---- MODULE Spec2Model ----
(***************************************************************************)
(* Model of the document gateway of eLENS-miner-system:                    *)
(*   library/postgresql.py  - class PostgresQL (the Document Store and     *)
(*                            the Document Repository)                     *)
(*   routes/documents.py    - the /documents routes (the Orchestrator)     *)
(* Text is a TLA+ string; a Python list or tuple is a sequence; a Python   *)
(* dict and a result row are functions from keys to values.                *)
(***************************************************************************)
EXTENDS Integers, Sequences, FiniteSets, TLC

\* ------------------------------------------------------------------ bounds
\* how far past the 500-character slice the sample texts reach
MaxExtraChars == 2
\* how far past the 100-id cap the sample id lists reach
MaxExtraIds == 2
\* the largest value the documents_document_id_seq sequence may hand out
MaxSeq == 4
\* longest similar_documents / similarities list of a remote response
MaxRemoteLen == 2
\* requests the server handles at the same time, each on a thread of its own
Threads == 2

\* ------------------------------------------------------- program constants
\* documents[i]['fulltext_cleaned'][:500]
SliceLen == 500
\* document_ids.split(',')[:100]
MaxDocuments == 100
\* jsonify(...), 200  and  jsonify(...), 400
HttpOk == 200
HttpBadRequest == 400

\* Python None / SQL NULL: a value outside every sample text of the model
None == "None"

Min(a, b) == IF a < b THEN a ELSE b

\* ------------------------------------------------------------ Python lists
\* s[:n] on a string or a list
SliceTo(s, n) == SubSeq(s, 1, Min(Len(s), n))

\* ',' - the separator of document_ids.split(',')
Comma == ","

\* the pieces of s[lo..hi] between the separators, empty pieces kept: the
\* pieces of the two halves, the last piece of the left half and the first
\* of the right half being one piece
RECURSIVE SplitRange(_, _, _, _)
SplitRange(s, sep, lo, hi) ==
  IF lo > hi THEN << "" >>
  ELSE IF lo = hi
    THEN (IF SubSeq(s, lo, lo) = sep THEN << "", "" >> ELSE << SubSeq(s, lo, lo) >>)
  ELSE LET Merge(l, r) == SubSeq(l, 1, Len(l) - 1) \o << l[Len(l)] \o r[1] >> \o Tail(r)
       IN  Merge(SplitRange(s, sep, lo, (lo + hi) \div 2),
                 SplitRange(s, sep, ((lo + hi) \div 2) + 1, hi))

\* str.split(sep)
Split(s, sep) == SplitRange(s, sep, 1, Len(s))

\* sep.join(toks[lo..hi]): builds the sample query strings
RECURSIVE JoinRange(_, _, _, _)
JoinRange(toks, sep, lo, hi) ==
  IF lo > hi THEN ""
  ELSE IF lo = hi THEN toks[lo]
  ELSE LET mid == (lo + hi) \div 2
       IN  JoinRange(toks, sep, lo, mid) \o sep \o JoinRange(toks, sep, mid + 1, hi)

Join(toks, sep) == JoinRange(toks, sep, 1, Len(toks))

\* ------------------------------------------------- SQL parameter adaptation
\* A parameter psycopg2 passes to the server: a Python str (adapted to a
\* quoted literal the server has to parse as an integer) or a Python int.
PyStr(s) == [str |-> s]
PyInt(n) == [int |-> n]

DigitVal(c) ==
  CASE c = "0" -> 0 [] c = "1" -> 1 [] c = "2" -> 2 [] c = "3" -> 3
    [] c = "4" -> 4 [] c = "5" -> 5 [] c = "6" -> 6 [] c = "7" -> 7
    [] c = "8" -> 8 [] c = "9" -> 9 [] OTHER -> -1

RECURSIVE ParseDigits(_, _, _)
ParseDigits(s, i, acc) ==
  IF i > Len(s) THEN acc
  ELSE IF DigitVal(SubSeq(s, i, i)) < 0 THEN -1
  ELSE ParseDigits(s, i + 1, acc * 10 + DigitVal(SubSeq(s, i, i)))

\* the server's integer input of a parameter: [ok, val]
PgInteger(p) ==
  IF "int" \in DOMAIN p THEN [ok |-> TRUE, val |-> p.int]
  ELSE IF Len(p.str) = 0 THEN [ok |-> FALSE, val |-> 0]
  ELSE LET Parsed(v) == IF v < 0 THEN [ok |-> FALSE, val |-> 0]
                        ELSE [ok |-> TRUE, val |-> v]
       IN  Parsed(ParseDigits(p.str, 1, 0))

\* ------------------------------------------------------------------ schema
\* metadata_fields of add_document_to_db
metadata_fields ==
  << "title", "document_source", "fulltext", "abstract", "date",
     "entryintoforce", "fulltextlink", "sourcename", "sourcelink", "status" >>

MetadataSet == { metadata_fields[i] : i \in 1..Len(metadata_fields) }

\* the columns SELECT * FROM documents yields
Columns == MetadataSet \cup {"document_id", "fulltext_cleaned"}

\* the five child tables, in the order add_document_to_db fills them
ChildTables ==
  << [table |-> "document_authors", key |-> "authors"],
     [table |-> "document_areas", key |-> "areas"],
     [table |-> "document_keywords", key |-> "keywords"],
     [table |-> "document_subjects", key |-> "subjects"],
     [table |-> "document_participants", key |-> "participants"] >>

\* dict.get(key, default)
Get(d, k, default) == IF k \in DOMAIN d THEN d[k] ELSE default

VARIABLES
  connection,   \* self.connection: "unset" (no attribute), "open", "closed"
  cursor,       \* self.cursor: "unset" (no attribute), "None", "open", "closed"
  txn,          \* transaction status of self.connection: "idle", "active", "aborted"
  documents,    \* table documents: document_id -> row
  children,     \* rows of the five child tables: <<table, document_id, value>>
  nextId,       \* next value of the document_id sequence
  phase,        \* the last lifecycle call that took effect
  inflight,     \* statements of concurrent requests running on the cursor
  result,       \* the result set the shared cursor currently holds
  pc,           \* position of each concurrent request
  got,          \* what each concurrent request's execute returned
  pending,      \* the HTTP request being served, with the similarity service's reply
  ret           \* outcome of the last call

vars == << connection, cursor, txn, documents, children, nextId, phase,
           inflight, result, pc, got, pending, ret >>

\* ------------------------------------------------------------- the store
\* The Store object and the database behind it, as one record, so that a
\* handler that makes several calls is one operator on it.
World ==
  [ connection |-> connection, cursor |-> cursor, txn |-> txn,
    documents |-> documents, children |-> children, nextId |-> nextId ]

\* "SELECT * FROM documents WHERE document_id IN %s;" with [tuple(ids)]
SelectIn(ids) == [kind |-> "select", ids |-> ids]
\* "INSERT INTO documents (...) VALUES (...) ON CONFLICT DO NOTHING
\*  RETURNING document_id" with the ten values of metadata_fields
InsertDocument(data) == [kind |-> "insert", data |-> data]

\* rows of documents in table order (ascending document_id: rows are only
\* ever appended) whose document_id is among the wanted values
RECURSIVE RowsOf(_, _, _)
RowsOf(docs, wanted, id) ==
  IF id > MaxSeq THEN << >>
  ELSE (IF id \in DOMAIN docs /\ id \in wanted THEN << docs[id] >> ELSE << >>)
       \o RowsOf(docs, wanted, id + 1)

\* the uniqueness key of documents: the title / source combination (a NULL
\* is equal to nothing, so a row without a source collides with none)
Conflicts(docs, data) ==
  /\ data.document_source # None
  /\ \E id \in DOMAIN docs :
        /\ docs[id].title = data.title
        /\ docs[id].document_source = data.document_source

\* the row a successful insert stores: the ten given columns, the assigned
\* document_id, and fulltext_cleaned left NULL
NewRow(id, data) ==
  [ c \in Columns |->
      IF c = "document_id" THEN id
      ELSE IF c = "fulltext_cleaned" THEN None
      ELSE data[c] ]

\* The server running one statement inside the connection's transaction:
\* [err, rows, w]; rows = None when the statement yields no result set.
RunStatement(w, stmt) ==
  IF stmt.kind = "select" THEN
    IF Len(stmt.ids) = 0
      THEN [err |-> "SyntaxError", rows |-> None, w |-> w]
    ELSE IF \E i \in 1..Len(stmt.ids) : ~PgInteger(stmt.ids[i]).ok
      THEN [err |-> "InvalidTextRepresentation", rows |-> None, w |-> w]
    ELSE [ err |-> "",
           rows |-> RowsOf(w.documents,
                           { PgInteger(stmt.ids[i]).val : i \in 1..Len(stmt.ids) }, 1),
           w |-> w ]
  ELSE
    IF stmt.data.title = None
      THEN [err |-> "NotNullViolation", rows |-> None, w |-> w]
    ELSE IF Conflicts(w.documents, stmt.data)
      \* ON CONFLICT DO NOTHING: no row, but the sequence value is used up
      THEN [err |-> "", rows |-> << >>, w |-> [w EXCEPT !.nextId = @ + 1]]
    ELSE [ err |-> "",
           rows |-> << [document_id |-> w.nextId] >>,
           w |-> [w EXCEPT !.documents = [ id \in DOMAIN @ \cup {w.nextId} |->
                                            IF id = w.nextId
                                            THEN NewRow(w.nextId, stmt.data)
                                            ELSE @[id] ],
                           !.nextId = @ + 1] ]

\* the check execute and executemany make before they touch the cursor
CursorIsNone(w) == w.cursor = "None"

\* PostgresQL.execute: [err, rows, ran, w]; ran = statements sent to the server
execute(w, stmt) ==
  IF w.cursor = "unset"
    THEN [err |-> "AttributeError", rows |-> None, ran |-> 0, w |-> w]
  ELSE IF CursorIsNone(w)
    THEN [err |-> "NotConnected", rows |-> None, ran |-> 0, w |-> w]
  ELSE IF w.cursor = "closed"
    THEN [err |-> "InterfaceError", rows |-> None, ran |-> 0, w |-> w]
  ELSE IF w.txn = "aborted"
    THEN [err |-> "InFailedSqlTransaction", rows |-> None, ran |-> 1, w |-> w]
  ELSE LET Ran(r) ==
             IF r.err # ""
             THEN [ err |-> r.err, rows |-> None, ran |-> 1,
                    w |-> [w EXCEPT !.txn = "aborted"] ]
             ELSE [ err |-> "", rows |-> r.rows, ran |-> 1,
                    w |-> [r.w EXCEPT !.txn = "active"] ]
       IN  Ran(RunStatement(w, stmt))

\* self.connection.commit(): ends the transaction, an aborted one by rollback
commit(w) == [w EXCEPT !.txn = "idle"]

\* cursor.executemany of "INSERT INTO <table> (document_id, <value>) VALUES
\* (%s, %s) ON CONFLICT DO NOTHING" over the rows, one statement per row
RECURSIVE InsertRows(_, _, _, _)
InsertRows(w, table, values, i) ==
  IF i > Len(values) THEN [err |-> "", ran |-> i - 1, w |-> w]
  ELSE IF w.txn = "aborted"
    THEN [err |-> "InFailedSqlTransaction", ran |-> i, w |-> w]
  ELSE IF values[i][1] \notin DOMAIN w.documents
    THEN [err |-> "ForeignKeyViolation", ran |-> i, w |-> [w EXCEPT !.txn = "aborted"]]
  ELSE InsertRows([w EXCEPT !.children = @ \cup {<< table, values[i][1], values[i][2] >>},
                            !.txn = "active"],
                  table, values, i + 1)

\* PostgresQL.executemany: [err, value, ran, w]
executemany(w, table, values) ==
  IF w.cursor = "unset"
    THEN [err |-> "AttributeError", value |-> None, ran |-> 0, w |-> w]
  ELSE IF CursorIsNone(w)
    THEN [err |-> "NotConnected", value |-> None, ran |-> 0, w |-> w]
  ELSE IF w.cursor = "closed"
    THEN [err |-> "InterfaceError", value |-> None, ran |-> 0, w |-> w]
  ELSE LET Ran(r) ==
             IF r.err # ""
             THEN [err |-> r.err, value |-> None, ran |-> r.ran, w |-> r.w]
             ELSE [err |-> "", value |-> "True", ran |-> r.ran, w |-> commit(r.w)]
       IN  Ran(InsertRows(w, table, values, 1))

\* ---------------------------------------------------------- the repository
\* {'Error' : 'You provided invalid document ids.'}
InvalidIds == [Error |-> "You provided invalid document ids."]

\* dict.pop(key): the mapping without the key
Pop(d, k) == [c \in DOMAIN d \ {k} |-> d[c]]

\* the body of the cleaning loop of get_documents_from_db for one row
Clean_SliceOffByOne(row) ==
  Pop(IF row.fulltext_cleaned # None
      THEN [row EXCEPT !.fulltext_cleaned = SliceTo(@, SliceLen + 1)]
      ELSE row,
      "fulltext")

Clean(row) ==
  Pop(IF row.fulltext_cleaned # None
      THEN [row EXCEPT !.fulltext_cleaned = SliceTo(@, SliceLen)]
      ELSE row,
      "fulltext")

\* PostgresQL.get_documents_from_db: [success, output, ran, w]
get_documents_from_db(w, document_ids) ==
  LET Fetched(r) ==
        IF r.err # ""
        THEN [success |-> FALSE, output |-> InvalidIds, ran |-> r.ran, w |-> r.w]
        ELSE [ success |-> TRUE,
               output |-> [i \in 1..Len(r.rows) |-> Clean(r.rows[i])],
               ran |-> r.ran, w |-> r.w ]
  IN  Fetched(execute(w, SelectIn(document_ids)))

\* [(document_id, v) for v in document_data.get(key, [])]
ChildValues(document_id, document_data, key) ==
  LET Pairs(vs) == [i \in 1..Len(vs) |-> << document_id, vs[i] >>]
  IN  Pairs(Get(document_data, key, << >>))

\* the five executemany calls of add_document_to_db, from the i-th on
RECURSIVE AddChildren(_, _, _, _)
AddChildren(w, document_id, document_data, i) ==
  IF i > Len(ChildTables) THEN [err |-> "", w |-> w]
  ELSE LET Then(r) == IF r.err # "" THEN [err |-> r.err, w |-> r.w]
                      ELSE AddChildren(r.w, document_id, document_data, i + 1)
       IN  Then(executemany(w, ChildTables[i].table,
                            ChildValues(document_id, document_data, ChildTables[i].key)))

\* what add_document_to_db hands back after the last executemany: the
\* function has no return statement
AddDocumentValue(document_id) == None

\* PostgresQL.add_document_to_db: [err, value, w]
add_document_to_db(w, document_data) ==
  LET Filled(document_id, c) ==
        IF c.err # "" THEN [err |-> c.err, value |-> None, w |-> c.w]
        ELSE [err |-> "", value |-> AddDocumentValue(document_id), w |-> c.w]
      Inserted(r) ==
        IF r.err # "" THEN [err |-> r.err, value |-> None, w |-> r.w]
        ELSE IF Len(r.rows) = 0
          \* after the commit, returned_data[0] on the empty list of a skipped insert
          THEN [err |-> "IndexError", value |-> None, w |-> commit(r.w)]
        ELSE Filled(r.rows[1].document_id,
                    AddChildren(commit(r.w), r.rows[1].document_id, document_data, 1))
  IN  Inserted(execute(w, InsertDocument([c \in MetadataSet |->
                                            Get(document_data, c, None)])))

\* ------------------------------------------------------------ sample inputs
\* characters lo..hi of the sample text of a seed; texts of different seeds
\* differ from the first character on
RECURSIVE TextRange(_, _, _)
TextRange(seed, lo, hi) ==
  IF lo > hi THEN ""
  ELSE IF lo = hi
    THEN (CASE (lo + seed) % 3 = 0 -> "c" [] (lo + seed) % 3 = 1 -> "a" [] OTHER -> "b")
  ELSE LET mid == (lo + hi) \div 2
       IN  TextRange(seed, lo, mid) \o TextRange(seed, mid + 1, hi)

\* a text of n characters
Text(seed, n) == TextRange(seed, 1, n)

\* lengths of the stored fulltext_cleaned values: short ones and the ones
\* around the slice; -1 stands for NULL
SampleLengths == {-1, 0, 3} \cup ((SliceLen - 1)..(SliceLen + MaxExtraChars))

\* a row of documents as the database holds it
StoredRow(id, title, cleaned) ==
  [ c \in Columns |->
      CASE c = "document_id" -> id
        [] c = "title" -> title
        [] c = "document_source" -> "eurlex"
        [] c = "fulltext" -> "full text"
        [] c = "fulltext_cleaned" -> cleaned
        [] OTHER -> None ]

\* a documents table of n rows with the given fulltext_cleaned values
Stored(cleaned) ==
  [ id \in 1..Len(cleaned) |->
      StoredRow(id, IF id = 1 THEN "T1" ELSE "T2", cleaned[id]) ]

\* the document_data mappings given to add_document_to_db
DocumentData ==
  { [title |-> "T1", document_source |-> "eurlex"],
    [title |-> "T3", document_source |-> "eurlex", fulltext |-> "secret",
     authors |-> << "A", "A" >>, areas |-> << "X" >>],
    [title |-> "T4", keywords |-> << "K" >>, subjects |-> << "S" >>,
     participants |-> << "P" >>],
    [authors |-> << "A" >>] }

\* id lists given to get_documents_from_db
IdLists ==
  { << >>, << PyStr("1") >>, << PyStr("2"), PyStr("1") >>, << PyStr("x") >>,
    << PyStr("1"), PyStr("") >>, << PyStr("3"), PyStr("3") >>, << PyInt(2) >> }

\* rows given to executemany for document_authors
AuthorRows == { << >>, << << 1, "A" >> >>, << << 1, "A" >>, << MaxSeq + 1, "B" >> >> }

\* ------------------------------------------------------------------ actions
SetWorld(w) ==
  /\ connection' = w.connection
  /\ cursor' = w.cursor
  /\ txn' = w.txn
  /\ documents' = w.documents
  /\ children' = w.children
  /\ nextId' = w.nextId

Sequential == UNCHANGED << inflight, result, pc, got, pending >>

\* PostgresQL.connect; ok: whether psycopg2.connect and connection.cursor()
\* succeed
connect(ok) ==
  /\ IF ok
     THEN /\ connection' = "open"
          /\ cursor' = "open"
          /\ txn' = "idle"
          /\ phase' = "connected"
     ELSE /\ cursor' = "None"
          /\ phase' = "failed"
          /\ UNCHANGED << connection, txn >>
  /\ ret' = [op |-> "connect", err |-> "", ok |-> ok]
  /\ UNCHANGED << documents, children, nextId >>
  /\ Sequential

\* `if self.connection:` - a psycopg2 connection object, open or closed, is
\* truthy
Truthy(c) == c \in {"open", "closed"}

\* PostgresQL.disconnect
disconnect ==
  /\ IF connection = "unset"
     \* reading self.connection, which __init__ never set
     THEN /\ ret' = [ op |-> "disconnect", err |-> "AttributeError", closes |-> 0,
                      was |-> connection ]
          /\ UNCHANGED << connection, cursor, txn, phase >>
     ELSE IF ~Truthy(connection)
     THEN /\ ret' = [op |-> "disconnect", err |-> "", closes |-> 0, was |-> connection]
          /\ UNCHANGED << connection, cursor, txn, phase >>
     ELSE IF cursor \in {"None", "unset"}
     \* self.cursor.close() on None
     THEN /\ ret' = [ op |-> "disconnect", err |-> "AttributeError", closes |-> 0,
                      was |-> connection ]
          /\ UNCHANGED << connection, cursor, txn, phase >>
     ELSE /\ cursor' = "closed"
          /\ connection' = "closed"
          /\ txn' = "idle"
          /\ phase' = IF phase = "connected" THEN "disconnected" ELSE phase
          /\ ret' = [ op |-> "disconnect", err |-> "",
                      closes |-> (IF cursor = "closed" THEN 1 ELSE 0)
                                 + (IF connection = "closed" THEN 1 ELSE 0),
                      was |-> connection ]
  /\ UNCHANGED << documents, children, nextId >>
  /\ Sequential

\* a caller's db.execute(statement, params)
Execute(stmt) ==
  LET Done(r) ==
        /\ SetWorld(r.w)
        /\ ret' = [op |-> "execute", err |-> r.err, value |-> r.rows, ran |-> r.ran]
  IN  /\ Done(execute(World, stmt))
      /\ UNCHANGED phase
      /\ Sequential

\* a caller's db.executemany(statement, values)
ExecuteMany(values) ==
  LET Done(r) ==
        /\ SetWorld(r.w)
        /\ ret' = [ op |-> "executemany", err |-> r.err, value |-> r.value,
                    ran |-> r.ran ]
  IN  /\ Done(executemany(World, "document_authors", values))
      /\ UNCHANGED phase
      /\ Sequential

\* a caller's db.get_documents_from_db(document_ids)
GetDocumentsFromDb(document_ids) ==
  LET Done(r) ==
        /\ SetWorld(r.w)
        /\ ret' = [ op |-> "get_documents_from_db", err |-> "", success |-> r.success,
                    output |-> r.output, ids |-> document_ids, ran |-> r.ran ]
  IN  /\ Done(get_documents_from_db(World, document_ids))
      /\ UNCHANGED phase
      /\ Sequential

\* a caller's db.add_document_to_db(document_data)
AddDocumentToDb(document_data) ==
  /\ nextId <= MaxSeq
  /\ LET Done(r) ==
           /\ SetWorld(r.w)
           /\ ret' = [ op |-> "add_document_to_db", err |-> r.err, value |-> r.value,
                       data |-> document_data ]
     IN  Done(add_document_to_db(World, document_data))
  /\ UNCHANGED phase
  /\ Sequential

\* the state after PostgresQL(): neither attribute is set; the database
\* holds what earlier runs left in it
InitStore(docs) ==
  /\ connection = "unset"
  /\ cursor = "unset"
  /\ txn = "idle"
  /\ documents = docs
  /\ children = {}
  /\ nextId = Cardinality(DOMAIN docs) + 1
  /\ phase = "never"
  /\ inflight = {}
  /\ result = [owner |-> 0, rows |-> << >>]
  /\ pc = << >>
  /\ got = << >>
  /\ ret = [op |-> "init", err |-> ""]

\* no HTTP request: the Store is called directly
NoRequest == [route |-> "none"]

Init ==
  /\ \E docs \in { Stored(<< >>), Stored(<< None >>) } : InitStore(docs)
  /\ pending = NoRequest

Next ==
  \/ \E ok \in BOOLEAN : connect(ok)
  \/ disconnect
  \/ \E ids \in IdLists : Execute(SelectIn(ids))
  \/ \E values \in AuthorRows : ExecuteMany(values)
  \/ \E ids \in IdLists : GetDocumentsFromDb(ids)
  \/ \E data \in DocumentData : AddDocumentToDb(data)

Spec == Init /\ [][Next]_vars

\* ------------------------------------------------------------------ claims
\* a step that is a call of the named operation
Called(op) == ret'.op = op /\ vars' # vars

\* the Store is connected: the last lifecycle call that took effect was a
\* successful connect
Connected == phase = "connected"

\* C3: add_document_to_db with data whose uniqueness key collides with an
\* existing document raises no error, returns no identifier, inserts no row
\* into a child table and leaves the documents table unchanged.
C3_ConflictIsNoOp ==
  [][ ( /\ Called("add_document_to_db")
        /\ Connected /\ txn # "aborted"
        /\ "title" \in DOMAIN ret'.data
        /\ Conflicts(documents, [title |-> ret'.data.title,
                                 document_source |-> Get(ret'.data, "document_source", None)]) )
      => ( /\ ret'.err = ""
           /\ ret'.value = None
           /\ children' = children
           /\ documents' = documents ) ]_vars

\* C4: add_document_to_db on a connected store with a title that does not
\* exist yet returns to its caller the document_id the store assigned to the
\* new row, a positive identifier no document had before the call.
C4_ReturnsFreshId ==
  [][ ( /\ Called("add_document_to_db")
        /\ Connected /\ txn # "aborted"
        /\ "title" \in DOMAIN ret'.data
        /\ \A id \in DOMAIN documents : documents[id].title # ret'.data.title )
      => ( /\ ret'.err = ""
           /\ ret'.value # None
           /\ ret'.value \in DOMAIN documents' \ DOMAIN documents
           /\ ret'.value > 0 ) ]_vars

\* C5: whenever the Store is disconnected (connect never called, the last
\* connect failed, or disconnect was called after a successful connect),
\* execute and executemany fail with the not-connected error and run no
\* statement.
C5_NotConnectedError ==
  (ret.op \in {"execute", "executemany"} /\ ~Connected)
    => (ret.err = "NotConnected" /\ ret.ran = 0)

\* C6: disconnect never raises; on a connection already closed or never
\* opened it is a no-op that closes nothing again, and on an open connection
\* it releases the connection.
C6_DisconnectIdempotent ==
  ret.op = "disconnect"
    => /\ ret.err = ""
       /\ ret.was # "open" => (ret.closes = 0 /\ connection = ret.was)
       /\ ret.was = "open" => connection = "closed"

\* what get_documents_from_db accepts as a valid id list: not empty, every
\* element an integer
ValidIds(ids) == Len(ids) > 0 /\ \A i \in 1..Len(ids) : PgInteger(ids[i]).ok

\* C10: after get_documents_from_db has returned (False, error) on a
\* connected Store, a later get_documents_from_db with valid ids on the same
\* connection returns (True, documents).
C10_FailureIsNotSticky ==
  [][ ( /\ ret.op = "get_documents_from_db" /\ ~ret.success
        /\ Connected
        /\ Called("get_documents_from_db")
        /\ ValidIds(ret'.ids) )
      => ret'.success ]_vars

\* ---------------------------------------------- fetches over every content
\* the documents table holding one or two rows whose fulltext_cleaned has
\* each of the sample lengths
InitFetch ==
  /\ \E k \in 1..2 : \E L \in [1..k -> SampleLengths] :
       InitStore(Stored([id \in 1..k |-> IF L[id] < 0 THEN None ELSE Text(id, L[id])]))
  /\ pending = NoRequest

NextFetch ==
  \/ \E ok \in BOOLEAN : connect(ok)
  \/ \E ids \in IdLists : GetDocumentsFromDb(ids)

SpecFetch == InitFetch /\ [][NextFetch]_vars

\* C1: every document mapping a successful get_documents_from_db returns has
\* no fulltext key, and its fulltext_cleaned, when not null, is at most 500
\* characters long and a prefix of the value stored for that document.
C1_Sanitized ==
  (ret.op = "get_documents_from_db" /\ ret.success)
    => \A i \in 1..Len(ret.output) :
         LET d == ret.output[i]
             stored == documents[d.document_id].fulltext_cleaned
         IN  /\ "fulltext" \notin DOMAIN d
             /\ d.fulltext_cleaned # None
                  => /\ Len(d.fulltext_cleaned) <= 500
                     /\ stored # None
                     /\ Len(d.fulltext_cleaned) <= Len(stored)
                     /\ d.fulltext_cleaned = SubSeq(stored, 1, Len(d.fulltext_cleaned))

\* a fetch returned a document whose stored text is longer than 500
\* characters, next to one whose text is null
C1_Witness ==
  /\ ret.op = "get_documents_from_db" /\ ret.success
  /\ \E i, j \in 1..Len(ret.output) :
       /\ Len(documents[ret.output[i].document_id].fulltext_cleaned) > 500
       /\ Len(ret.output[i].fulltext_cleaned) = 500
       /\ ret.output[j].fulltext_cleaned = None

\* ------------------------------------------------------------- the routes
\* A response is the JSON value given to jsonify and the status code.

\* {'Message' : 'You need to provide query param "document_ids" ...'}
NeedDocumentIds == [Message |-> "You need to provide query param document_ids"]

\* [:100] of get_documents
Cap_OffByOne(ids) == SliceTo(ids, MaxDocuments + 1)

Cap(ids) == SliceTo(ids, MaxDocuments)

\* the list get_documents gives to get_documents_from_db: the pieces of the
\* query parameter, each a str
IdsOfQuery(document_ids) ==
  LET Strs(pieces) == [i \in 1..Len(pieces) |-> PyStr(pieces[i])]
  IN  Strs(Cap(Split(document_ids, Comma)))

\* `success, output = db.get_documents_from_db(ids)` and the response made
\* of it: [status, body, passed, lookups, w]
Lookup(w, ids) ==
  LET Answer(r) ==
        IF r.success
        THEN [ status |-> HttpOk, body |-> [documents |-> r.output],
               passed |-> ids, lookups |-> 1, w |-> r.w ]
        ELSE [ status |-> HttpBadRequest, body |-> r.output,
               passed |-> ids, lookups |-> 1, w |-> r.w ]
  IN  Answer(get_documents_from_db(w, ids))

\* route GET / : [status, body, passed, lookups, w]
get_documents(w, document_ids) ==
  IF document_ids = None
  THEN [ status |-> HttpOk, body |-> NeedDocumentIds, passed |-> << >>,
         lookups |-> 0, w |-> w ]
  ELSE LET Looked(ids) == Lookup(w, ids)
       IN  Looked(IdsOfQuery(document_ids))

\* route GET /<doc_id> : [status, body, passed, lookups, w]
retrieve_document(w, doc_id) == Lookup(w, << PyStr(doc_id) >>)

\* 'similar_documents' in json_response
HasSimilarDocuments_WrongKey(json_response) == "similarities" \in DOMAIN json_response

HasSimilarDocuments(json_response) == "similar_documents" \in DOMAIN json_response

\* index of the pair of key k that a dict built from the pairs keeps
KeptPair_First(similarities, k) ==
  CHOOSE i \in 1..Len(similarities) :
    /\ similarities[i][1] = k
    /\ \A j \in 1..Len(similarities) : similarities[j][1] = k => i <= j

KeptPair(similarities, k) ==
  CHOOSE i \in 1..Len(similarities) :
    /\ similarities[i][1] = k
    /\ \A j \in 1..Len(similarities) : similarities[j][1] = k => j <= i

\* {doc_id : sim for doc_id, sim in similarities}
SimilaritiesDictionary(similarities) ==
  [ k \in { similarities[i][1] : i \in 1..Len(similarities) } |->
      similarities[KeptPair(similarities, k)][2] ]

\* doc['similarity'] = value
WithSimilarity(doc, value) ==
  [ c \in DOMAIN doc \cup {"similarity"} |-> IF c = "similarity" THEN value ELSE doc[c] ]

\* route GET /<doc_id>/similar, given the reply of the similarity service:
\* [err, status, body, passed, lookups, found, w]
get_similar_documents(w, reply) ==
  LET Joined(documents_ids, similarities_dictionary, r) ==
        IF r.success
        THEN IF \E i \in 1..Len(r.output) :
                  r.output[i].document_id \notin DOMAIN similarities_dictionary
             \* similarities_dictionary[document_id] of a missing key
             THEN [ err |-> "KeyError", status |-> 0, body |-> None,
                    passed |-> documents_ids, lookups |-> 1, found |-> TRUE, w |-> r.w ]
             ELSE [ err |-> "", status |-> HttpOk,
                    body |-> [documents |->
                       [i \in 1..Len(r.output) |->
                          WithSimilarity(r.output[i],
                             similarities_dictionary[r.output[i].document_id])]],
                    passed |-> documents_ids, lookups |-> 1, found |-> TRUE, w |-> r.w ]
        ELSE [ err |-> "", status |-> HttpBadRequest, body |-> r.output,
               passed |-> documents_ids, lookups |-> 1, found |-> FALSE, w |-> r.w ]
      Similar(documents_ids, similarities) ==
        Joined(documents_ids, SimilaritiesDictionary(similarities),
               get_documents_from_db(w, [i \in 1..Len(documents_ids) |->
                                           PyInt(documents_ids[i])]))
  IN  IF reply.raised
      \* requests.get or r.json() raised: nothing catches it
      THEN [ err |-> "RequestException", status |-> 0, body |-> None, passed |-> << >>,
             lookups |-> 0, found |-> FALSE, w |-> w ]
      ELSE IF HasSimilarDocuments(reply.json)
      THEN Similar(Get(reply.json, "similar_documents", << >>),
                   Get(reply.json, "similarities", << >>))
      ELSE [ err |-> "", status |-> HttpBadRequest, body |-> reply.json,
             passed |-> << >>, lookups |-> 0, found |-> FALSE, w |-> w ]

\* ------------------------------------------------------ inputs of the routes
\* a query parameter of n ids: the first MaxDocuments alternate "1" and "2",
\* the ones after them are `rest`
LongQuery(n, rest) ==
  Join([i \in 1..n |-> IF i > MaxDocuments THEN rest
                       ELSE IF i % 2 = 1 THEN "1" ELSE "2"], Comma)

\* request.args.get('document_ids', None)
Queries ==
  { None, "1", "2,1", "x", "", "1,,2", "3,12" }
    \cup { LongQuery(n, rest) :
             n \in (MaxDocuments - 1)..(MaxDocuments + MaxExtraIds), rest \in {"3", "x"} }

\* <doc_id> of GET /<doc_id>
DocIds == { "1", "2", "x" }

SeqsUpTo(S, n) == UNION { [1..k -> S] : k \in 0..n }

\* document ids and similarity scores the similarity service answers with
RemoteIds == 1..2
Scores == { 5, 9 }

\* what requests.get(...).json() yields
RemoteReplies ==
  { [raised |-> TRUE] }
    \cup { [raised |-> FALSE, json |-> j] :
             j \in { [similar_documents |-> d, similarities |-> p] :
                       d \in SeqsUpTo(RemoteIds, MaxRemoteLen),
                       p \in SeqsUpTo(RemoteIds \X Scores, MaxRemoteLen) }
                   \cup { [similar_documents |-> d] : d \in SeqsUpTo(RemoteIds, 1) }
                   \cup { [similarities |-> p] : p \in SeqsUpTo(RemoteIds \X Scores, 1) }
                   \cup { [error |-> "Document not found"] } }

\* the requests served: GET /?document_ids=..., GET /<doc_id>, and
\* GET /<doc_id>/similar with what the similarity service replies to it
Requests ==
  { [route |-> "get_documents", document_ids |-> q] : q \in Queries }
    \cup { [route |-> "retrieve_document", doc_id |-> d] : d \in DocIds }
    \cup { [route |-> "get_similar_documents", reply |-> r] : r \in RemoteReplies }

\* ---------------------------------------------------- serving the request
GetDocuments ==
  /\ pending.route = "get_documents"
  /\ LET Done(r) ==
           /\ SetWorld(r.w)
           /\ ret' = [ op |-> "get_documents", err |-> "", status |-> r.status,
                       body |-> r.body, passed |-> r.passed, lookups |-> r.lookups ]
     IN  Done(get_documents(World, pending.document_ids))
  /\ UNCHANGED phase
  /\ Sequential

RetrieveDocument ==
  /\ pending.route = "retrieve_document"
  /\ LET Done(r) ==
           /\ SetWorld(r.w)
           /\ ret' = [ op |-> "retrieve_document", err |-> "", status |-> r.status,
                       body |-> r.body, passed |-> r.passed, lookups |-> r.lookups ]
     IN  Done(retrieve_document(World, pending.doc_id))
  /\ UNCHANGED phase
  /\ Sequential

GetSimilarDocuments ==
  /\ pending.route = "get_similar_documents"
  /\ LET Done(r) ==
           /\ SetWorld(r.w)
           /\ ret' = [ op |-> "get_similar_documents", err |-> r.err,
                       status |-> r.status, body |-> r.body, passed |-> r.passed,
                       lookups |-> r.lookups, found |-> r.found,
                       reply |-> pending.reply ]
     IN  Done(get_similar_documents(World, pending.reply))
  /\ UNCHANGED phase
  /\ Sequential

InitRoutes ==
  /\ \E docs \in { Stored(<< None >>), Stored(<< Text(1, 3), None, Text(3, 2) >>) } :
       InitStore(docs)
  /\ pending \in Requests

NextRoutes ==
  \/ \E ok \in BOOLEAN : connect(ok)
  \/ disconnect
  \/ GetDocuments
  \/ RetrieveDocument
  \/ GetSimilarDocuments

SpecRoutes == InitRoutes /\ [][NextRoutes]_vars

\* the similarities of a reply, and the index of the last pair of an id
SimilaritiesOf(reply) == Get(reply.json, "similarities", << >>)
PairsOf(reply, id) == { i \in 1..Len(SimilaritiesOf(reply)) : SimilaritiesOf(reply)[i][1] = id }
LastPair(reply, id) == CHOOSE i \in PairsOf(reply, id) : \A j \in PairsOf(reply, id) : j <= i

\* C2 as stated: whenever the remote response has similar_documents and the
\* local lookup succeeds, the call returns a success response in which every
\* document carries the score paired with its id in similarities, also when
\* an id has no pair or several.
C2_AlwaysScored ==
  ( /\ ret.op = "get_similar_documents"
    /\ ~ret.reply.raised
    /\ "similar_documents" \in DOMAIN ret.reply.json
    /\ ret.found )
    => /\ ret.err = ""
       /\ ret.status = 200
       /\ \A i \in 1..Len(ret.body.documents) :
            LET doc == ret.body.documents[i]
            IN  /\ "similarity" \in DOMAIN doc
                /\ \E k \in PairsOf(ret.reply, doc.document_id) :
                     doc.similarity = SimilaritiesOf(ret.reply)[k][2]

\* the documents the lookup of a reply's similar_documents finds
FoundIds(reply) ==
  { id \in DOMAIN documents :
      \E i \in 1..Len(reply.json.similar_documents) : reply.json.similar_documents[i] = id }

\* C2, amended: whenever the remote response has similar_documents and the
\* local lookup succeeds, then (a) if every document found has a pair in
\* similarities, the call returns a success response holding exactly the
\* documents found, each with the score of the last pair of its id; (b) if
\* a document found has no pair, the call raises a lookup error and returns
\* no response.
C2_ScoredOrKeyError ==
  ( /\ ret.op = "get_similar_documents"
    /\ ~ret.reply.raised
    /\ "similar_documents" \in DOMAIN ret.reply.json
    /\ ret.found )
    => IF \A id \in FoundIds(ret.reply) : PairsOf(ret.reply, id) # {}
       THEN /\ ret.err = ""
            /\ ret.status = 200
            /\ { ret.body.documents[i].document_id : i \in 1..Len(ret.body.documents) }
                 = FoundIds(ret.reply)
            /\ \A i \in 1..Len(ret.body.documents) :
                 LET doc == ret.body.documents[i]
                 IN  /\ "similarity" \in DOMAIN doc
                     /\ doc.similarity
                          = SimilaritiesOf(ret.reply)[LastPair(ret.reply, doc.document_id)][2]
       ELSE ret.err = "KeyError" /\ ret.body = None

\* a success response for a document whose id has two pairs of different
\* scores
C2_Witness ==
  /\ ret.op = "get_similar_documents" /\ ret.err = "" /\ ret.status = 200
  /\ \E i \in 1..Len(ret.body.documents) :
       \E k, l \in PairsOf(ret.reply, ret.body.documents[i].document_id) :
          SimilaritiesOf(ret.reply)[k][2] # SimilaritiesOf(ret.reply)[l][2]

\* C9: if the remote response has no similar_documents key, get_similar
\* returns exactly the remote body with status 400 and makes no lookup on
\* the store.
C9_RemoteErrorVerbatim ==
  ( /\ ret.op = "get_similar_documents"
    /\ ~ret.reply.raised
    /\ "similar_documents" \notin DOMAIN ret.reply.json )
    => /\ ret.err = ""
       /\ ret.body = ret.reply.json
       /\ ret.status = 400
       /\ ret.lookups = 0
       /\ ret.passed = << >>

\* a remote body with similarities but without similar_documents was
\* returned as it came
C9_Witness ==
  /\ ret.op = "get_similar_documents"
  /\ ~ret.reply.raised
  /\ DOMAIN ret.reply.json = {"similarities"}
  /\ Len(ret.reply.json.similarities) > 0
  /\ ret.body = ret.reply.json
  /\ ret.status = 400
  /\ cursor = "open"

\* C8: for an id list of more than 100 elements get_documents passes exactly
\* the first 100, in their order, to get_documents_from_db and answers as it
\* would had only those 100 been given; a list of at most 100 is passed
\* unchanged.
C8_FirstHundred ==
  [][ ( /\ Called("get_documents")
        /\ pending.document_ids # None )
      => LET Claim(all) ==
               /\ Len(ret'.passed) = Min(Len(all), 100)
               /\ \A i \in 1..Len(ret'.passed) : ret'.passed[i] = PyStr(all[i])
               /\ LET Same(r) == ret'.status = r.status /\ ret'.body = r.body
                  IN  Same(get_documents(World,
                                         Join(SubSeq(all, 1, Min(Len(all), 100)), Comma)))
         IN  Claim(Split(pending.document_ids, Comma)) ]_vars

\* a list of more than 100 ids whose 101st is malformed was answered with
\* the documents of the first 100
C8_Witness ==
  /\ ret.op = "get_documents"
  /\ pending.route = "get_documents"
  /\ pending.document_ids # None
  /\ Len(Split(pending.document_ids, Comma)) > 100
  /\ Split(pending.document_ids, Comma)[101] = "x"
  /\ Len(ret.passed) = 100
  /\ ret.status = 200
  /\ Len(ret.body.documents) = 2

\* ------------------------------------------------------ concurrent requests
\* Requests served on threads of their own, all on the one Store: each
\* calls get_documents_from_db, whose execute is three steps on self.cursor.
ThreadIds == 1..Threads

\* the id lists the concurrent requests ask for
ConcurrentIds == { << PyStr("1") >>, << PyStr("2") >>, << PyStr("1"), PyStr("2") >> }

\* a request arrives and its handler reaches db.execute(statement, params)
Begin(t, ids) ==
  /\ pc[t].at = "idle"
  /\ pc' = [pc EXCEPT ![t] = [at |-> "execute", ids |-> ids]]
  /\ UNCHANGED << connection, cursor, txn, documents, children, nextId, phase,
                  inflight, result, got, pending, ret >>

\* self.cursor.execute(statement, params): the cursor now holds the result
\* set of this statement
CursorExecute(t) ==
  /\ pc[t].at = "execute"
  /\ cursor = "open" /\ txn # "aborted"
  /\ result' = [owner |-> t, rows |-> RunStatement(World, SelectIn(pc[t].ids)).rows]
  /\ inflight' = inflight \cup {t}
  /\ txn' = "active"
  /\ pc' = [pc EXCEPT ![t].at = "description"]
  /\ UNCHANGED << connection, cursor, documents, children, nextId, phase, got,
                  pending, ret >>

\* `if self.cursor.description is not None` and the field names: the
\* columns of whatever result set the cursor holds
Description(t) ==
  /\ pc[t].at = "description"
  /\ pc' = [pc EXCEPT ![t].at = "fetchall"]
  /\ UNCHANGED << connection, cursor, txn, documents, children, nextId, phase,
                  inflight, result, got, pending, ret >>

\* self.cursor.fetchall(): the rows left in the result set the cursor holds
FetchAll(t) ==
  /\ pc[t].at = "fetchall"
  /\ got' = [got EXCEPT ![t] = result.rows]
  /\ result' = [result EXCEPT !.rows = << >>]
  /\ inflight' = inflight \ {t}
  /\ pc' = [pc EXCEPT ![t].at = "done"]
  /\ UNCHANGED << connection, cursor, txn, documents, children, nextId, phase,
                  pending, ret >>

\* the handler answers and the thread is free for the next request
Return(t) ==
  /\ pc[t].at = "done"
  /\ pc' = [pc EXCEPT ![t] = [at |-> "idle", ids |-> << >>]]
  /\ got' = [got EXCEPT ![t] = << >>]
  /\ UNCHANGED << connection, cursor, txn, documents, children, nextId, phase,
                  inflight, result, pending, ret >>

\* the service is up: the Store is connected and no request is being served
InitConc ==
  /\ connection = "open"
  /\ cursor = "open"
  /\ txn = "idle"
  /\ documents = Stored(<< Text(1, 3), None >>)
  /\ children = {}
  /\ nextId = 3
  /\ phase = "connected"
  /\ inflight = {}
  /\ result = [owner |-> 0, rows |-> << >>]
  /\ pc = [t \in ThreadIds |-> [at |-> "idle", ids |-> << >>]]
  /\ got = [t \in ThreadIds |-> << >>]
  /\ pending = NoRequest
  /\ ret = [op |-> "connect", err |-> "", ok |-> TRUE]

NextConc ==
  \E t \in ThreadIds :
     \/ \E ids \in ConcurrentIds : Begin(t, ids)
     \/ CursorExecute(t)
     \/ Description(t)
     \/ FetchAll(t)
     \/ Return(t)

SpecConc == InitConc /\ [][NextConc]_vars

\* C7: with requests running concurrently on the same Store, at most one
\* statement is in flight on the connection at a time, and every execute
\* returns exactly the rows of its own statement.
C7_Serialized ==
  /\ Cardinality(inflight) <= 1
  /\ \A t \in ThreadIds :
       pc[t].at = "done"
         => got[t] = RunStatement(World, SelectIn(pc[t].ids)).rows

====
